---- MODULE Spec2Model ----
(***************************************************************************)
(* The request/response protocol of server.py and client.py over the local *)
(* stream socket: json.dumps / raw_decode framing, the decode loops, entry *)
(* point dispatch, the stdout/stderr relay, environment replacement and    *)
(* the exit handshake.                                                     *)
(*                                                                         *)
(* JSON text is a sequence of characters.  The texts of the keys, of the   *)
(* entry point names and of the fixed messages are abbreviated to one      *)
(* character each (written as the one-element sequence <<"set_thing">>);   *)
(* everything else of the text that json.dumps writes (braces, brackets,   *)
(* quotes, the ", " and ": " separators, the escapes) is kept character    *)
(* for character.                                                          *)
(***************************************************************************)
EXTENDS Integers, Sequences, FiniteSets, TLC

(***************************************************************************)
(* Characters                                                              *)
(***************************************************************************)
QUOTE == "\""
BACKSLASH == "\\"
NEWLINE == "\n"
SPACE == " "
Whitespace == {SPACE, NEWLINE}
Digit == {"0", "1", "2", "3", "4", "5", "6", "7", "8", "9"}

DigitValue(c) ==
    CASE c = "0" -> 0 [] c = "1" -> 1 [] c = "2" -> 2 [] c = "3" -> 3
      [] c = "4" -> 4 [] c = "5" -> 5 [] c = "6" -> 6 [] c = "7" -> 7
      [] c = "8" -> 8 [] c = "9" -> 9

DigitChar(n) ==
    CASE n = 0 -> "0" [] n = 1 -> "1" [] n = 2 -> "2" [] n = 3 -> "3"
      [] n = 4 -> "4" [] n = 5 -> "5" [] n = 6 -> "6" [] n = 7 -> "7"
      [] n = 8 -> "8" [] n = 9 -> "9"

(***************************************************************************)
(* Python values that JSON carries: str, int, list, dict.  A dict is the   *)
(* sequence of its <<key, value>> pairs in insertion order.                *)
(***************************************************************************)
Str(chars) == [t |-> "str", v |-> chars]
Num(n) == [t |-> "num", v |-> n]
Arr(items) == [t |-> "arr", v |-> items]
Obj(pairs) == [t |-> "obj", v |-> pairs]

IsStr(x) == x.t = "str"
IsNum(x) == x.t = "num"
IsArr(x) == x.t = "arr"
IsObj(x) == x.t = "obj"

\* key in dict
HasKey(o, k) == \E i \in 1..Len(o.v) : o.v[i][1] = k

\* dict[key] of a dict that has the key (the last pair wins)
GetKey(o, k) ==
    LET i == CHOOSE j \in 1..Len(o.v) :
                 /\ o.v[j][1] = k
                 /\ \A m \in (j + 1)..Len(o.v) : o.v[m][1] # k
    IN  o.v[i][2]

(***************************************************************************)
(* str.strip() / bytes.strip()                                            *)
(***************************************************************************)
RECURSIVE LStrip(_)
LStrip(s) ==
    IF s # <<>> /\ Head(s) \in Whitespace THEN LStrip(Tail(s)) ELSE s

RECURSIVE RStrip(_)
RStrip(s) ==
    IF s # <<>> /\ s[Len(s)] \in Whitespace
    THEN RStrip(SubSeq(s, 1, Len(s) - 1))
    ELSE s

strip(s) == RStrip(LStrip(s))

(***************************************************************************)
(* json.dumps                                                              *)
(***************************************************************************)
RECURSIVE Digits(_)
Digits(n) ==
    IF n < 10 THEN <<DigitChar(n)>>
    ELSE Digits(n \div 10) \o <<DigitChar(n % 10)>>

\* the characters json.dumps writes between the quotes of a string
RECURSIVE Escape(_)
Escape(chars) ==
    IF chars = <<>> THEN <<>>
    ELSE LET c == Head(chars)
         IN  (CASE c = QUOTE -> <<BACKSLASH, QUOTE>>
                [] c = BACKSLASH -> <<BACKSLASH, BACKSLASH>>
                [] c = NEWLINE -> <<BACKSLASH, "n">>
                [] OTHER -> <<c>>) \o Escape(Tail(chars))

RECURSIVE dumps(_)
RECURSIVE DumpItems(_)
RECURSIVE DumpPairs(_)

DumpItems(items) ==
    IF items = <<>> THEN <<>>
    ELSE dumps(Head(items))
         \o (IF Len(items) > 1 THEN <<",", SPACE>> ELSE <<>>)
         \o DumpItems(Tail(items))

DumpPairs(pairs) ==
    IF pairs = <<>> THEN <<>>
    ELSE <<QUOTE>> \o Escape(Head(pairs)[1]) \o <<QUOTE, ":", SPACE>>
         \o dumps(Head(pairs)[2])
         \o (IF Len(pairs) > 1 THEN <<",", SPACE>> ELSE <<>>)
         \o DumpPairs(Tail(pairs))

dumps(x) ==
    CASE IsNum(x) -> Digits(x.v)
      [] IsStr(x) -> <<QUOTE>> \o Escape(x.v) \o <<QUOTE>>
      [] IsArr(x) -> <<"[">> \o DumpItems(x.v) \o <<"]">>
      [] IsObj(x) -> <<"{">> \o DumpPairs(x.v) \o <<"}">>

\* what a sequence of writes of dumped values puts on a stream: no separator
RECURSIVE DumpAll(_)
DumpAll(values) ==
    IF values = <<>> THEN <<>> ELSE dumps(Head(values)) \o DumpAll(Tail(values))

(***************************************************************************)
(* json.JSONDecoder.raw_decode(s, idx): the value that starts at offset    *)
(* idx (0-based, no whitespace skipped before it) and the offset after it, *)
(* or a JSONDecodeError.                                                   *)
(***************************************************************************)
DecodeError == [ok |-> FALSE]
Decoded(x, end) == [ok |-> TRUE, val |-> x, end |-> end]

CharAt(s, i) == IF i < Len(s) THEN s[i + 1] ELSE "EOF"

RECURSIVE SkipWs(_, _)
SkipWs(s, i) ==
    IF CharAt(s, i) \in Whitespace THEN SkipWs(s, i + 1) ELSE i

\* the string whose opening quote is just before offset i
RECURSIVE scanstring(_, _, _)
scanstring(s, i, acc) ==
    LET c == CharAt(s, i)
    IN  CASE c = "EOF" -> DecodeError
          [] c = QUOTE -> Decoded(Str(acc), i + 1)
          [] c = NEWLINE -> DecodeError
          [] c = BACKSLASH ->
               LET e == CharAt(s, i + 1)
               IN  CASE e = "n" -> scanstring(s, i + 2, Append(acc, NEWLINE))
                     [] e \in {QUOTE, BACKSLASH} ->
                          scanstring(s, i + 2, Append(acc, e))
                     [] OTHER -> DecodeError
          [] OTHER -> scanstring(s, i + 1, Append(acc, c))

\* the digits of a number: "0" alone, or a run of digits that starts 1..9
RECURSIVE ScanDigits(_, _, _)
ScanDigits(s, i, n) ==
    IF CharAt(s, i) \in Digit
    THEN ScanDigits(s, i + 1, 10 * n + DigitValue(CharAt(s, i)))
    ELSE Decoded(Num(n), i)

RECURSIVE scan_once(_, _)
RECURSIVE JSONArray(_, _, _)
RECURSIVE JSONObject(_, _, _)

\* the items of a list, from offset i, after "[" or after ", "
JSONArray(s, i, acc) ==
    LET r == scan_once(s, i)
    IN  IF ~r.ok THEN DecodeError
        ELSE LET j == SkipWs(s, r.end)
                 c == CharAt(s, j)
             IN  CASE c = "]" -> Decoded(Arr(Append(acc, r.val)), j + 1)
                   [] c = "," -> JSONArray(s, SkipWs(s, j + 1), Append(acc, r.val))
                   [] OTHER -> DecodeError

\* the pairs of a dict, from the opening quote of a key at offset i
JSONObject(s, i, acc) ==
    IF CharAt(s, i) # QUOTE THEN DecodeError
    ELSE LET k == scanstring(s, i + 1, <<>>)
         IN  IF ~k.ok THEN DecodeError
             ELSE LET j == SkipWs(s, k.end)
                  IN  IF CharAt(s, j) # ":" THEN DecodeError
                      ELSE LET r == scan_once(s, SkipWs(s, j + 1))
                           IN  IF ~r.ok THEN DecodeError
                               ELSE LET m == SkipWs(s, r.end)
                                        c == CharAt(s, m)
                                        more == Append(acc, <<k.val.v, r.val>>)
                                    IN  CASE c = "}" -> Decoded(Obj(more), m + 1)
                                          [] c = "," ->
                                               JSONObject(s, SkipWs(s, m + 1), more)
                                          [] OTHER -> DecodeError

scan_once(s, i) ==
    LET c == CharAt(s, i)
    IN  CASE c = QUOTE -> scanstring(s, i + 1, <<>>)
          [] c = "{" ->
               LET j == SkipWs(s, i + 1)
               IN  IF CharAt(s, j) = "}" THEN Decoded(Obj(<<>>), j + 1)
                   ELSE JSONObject(s, j, <<>>)
          [] c = "[" ->
               LET j == SkipWs(s, i + 1)
               IN  IF CharAt(s, j) = "]" THEN Decoded(Arr(<<>>), j + 1)
                   ELSE JSONArray(s, j, <<>>)
          [] c = "0" -> Decoded(Num(0), i + 1)
          [] c \in Digit -> ScanDigits(s, i, 0)
          [] OTHER -> DecodeError

raw_decode(s, idx) == scan_once(s, idx)

(***************************************************************************)
(* Names on the wire.  Key: the keys of a request and of a relay message.  *)
(* ClientName: the client's entry points (client.py).                      *)
(***************************************************************************)
Key == [function_name |-> <<"function_name">>, args |-> <<"args">>, env |-> <<"env">>]

ClientName ==
    [print_server_stdout |-> <<"print_server_stdout">>,
     print_server_stderr |-> <<"print_server_stderr">>,
     _exit |-> <<"_exit">>]

\* SERVER_ENTRY_POINT._valid_entry_points, in the order the decorators ran,
\* each name with str(inspect.signature(func))
_valid_entry_points ==
    << [name |-> <<"set_thing">>, sig |-> <<"(value)">>],
       [name |-> <<"get_thing">>, sig |-> <<"()">>],
       [name |-> <<"print_env_var_foo">>, sig |-> <<"()">>],
       [name |-> <<"exit">>, sig |-> <<"(exit_code=0)">>] >>

EntryPointNames == {_valid_entry_points[i].name : i \in 1..Len(_valid_entry_points)}

\* the global THING before set_thing has created it
Unset == [t |-> "unset"]

\* str(x) of a str or an int; str(None) is "None"
PyStr(x) ==
    CASE IsStr(x) -> x.v
      [] IsNum(x) -> Digits(x.v)
      [] x.t = "none" -> <<"None">>

None == [t |-> "none"]

(***************************************************************************)
(* The output relay (JsonPayloadOutputStreamWrapper) and the exit          *)
(* directive.  A relay message is the dict that is dumped to the           *)
(* connection's wfile; print(x, file=wrapper) is write(str(x)) followed by *)
(* write("\n").                                                            *)
(***************************************************************************)
RelayMessage(client_function_name, arg) ==
    Obj(<< <<Key.function_name, Str(client_function_name)>>,
           <<Key.args, Arr(<<arg>>)>> >>)

\* text is empty or whitespace only
Blank(text) == \A i \in 1..Len(text) : text[i] \in Whitespace

\* a write that sends nothing for a blank text
writeSkipBlank(client_function_name, text) ==
    IF Blank(text) THEN <<>> ELSE <<RelayMessage(client_function_name, Str(text))>>

write(client_function_name, text) ==
    <<RelayMessage(client_function_name, Str(text))>>

print(client_function_name, text) ==
    write(client_function_name, text) \o write(client_function_name, <<NEWLINE>>)

tell_client_to_exit(exit_code) == <<RelayMessage(ClientName._exit, exit_code)>>

ShuttingDown == <<"Shutting down server.py">>

\* traceback.format_exc() of an exception of the given type and message
format_exc(exc) == <<"Traceback (most recent call last):", exc.type, ":">> \o exc.msg

Exception(type, msg) == [type |-> type, msg |-> msg]

(***************************************************************************)
(* The entry point functions.  Each takes the positional arguments and the *)
(* process-wide state g = [THING, environ] and gives what the call did:    *)
(* how it ended (return / SystemExit / Exception), the relay messages its  *)
(* prints wrote, and the new THING.  run adds the call it made: the name   *)
(* and the positional arguments.                                           *)
(***************************************************************************)
Returned(out, thing) ==
    [kind |-> "return", out |-> out, THING |-> thing, called |-> <<>>]
Raised(exc, thing) ==
    [kind |-> "Exception", out |-> <<>>, THING |-> thing, called |-> <<>>, exc |-> exc]
SysExit(code, thing) ==
    [kind |-> "SystemExit", out |-> <<>>, THING |-> thing, called |-> <<>>, code |-> code]

ArityError(g) == Raised(Exception("TypeError", <<"positional arguments">>), g.THING)

set_thing(a, g) ==
    IF Len(a) # 1 THEN ArityError(g)
    ELSE Returned(print(ClientName.print_server_stdout,
                        <<"global variable THING is now ", QUOTE>>
                            \o PyStr(a[1]) \o <<QUOTE>>),
                  a[1])

get_thing(a, g) ==
    IF Len(a) # 0 THEN ArityError(g)
    ELSE IF g.THING = Unset
         THEN Raised(Exception("NameError", <<"name 'THING' is not defined">>), g.THING)
         ELSE Returned(print(ClientName.print_server_stdout, PyStr(g.THING)), g.THING)

print_env_var_foo(a, g) ==
    IF Len(a) # 0 THEN ArityError(g)
    ELSE IF ~IsObj(g.environ)
         THEN Raised(Exception("AttributeError", <<"get">>), g.THING)
         ELSE Returned(print(ClientName.print_server_stdout,
                             PyStr(IF HasKey(g.environ, <<"foo">>)
                                   THEN GetKey(g.environ, <<"foo">>)
                                   ELSE None)),
                       g.THING)

exit(a, g) ==
    IF Len(a) > 1 THEN ArityError(g)
    ELSE SysExit(IF Len(a) = 1 THEN a[1] ELSE Num(0), g.THING)

(***************************************************************************)
(* ServerEntryPoints.run                                                   *)
(***************************************************************************)
RECURSIVE Bullets(_)
Bullets(entries) ==
    IF entries = <<>> THEN <<>>
    ELSE <<"  * ">> \o Head(entries).name \o Head(entries).sig
         \o (IF Len(entries) > 1 THEN <<NEWLINE>> ELSE <<>>)
         \o Bullets(Tail(entries))

error_message(func_name) ==
    <<QUOTE>> \o PyStr(func_name)
        \o <<QUOTE, " is not a valid entry point function in server.py">>
        \o <<"Current valid entry points are:", NEWLINE>>
        \o Bullets(_valid_entry_points)

\* f(*args): the positional arguments that unpacking args gives
Unpack(x) ==
    CASE IsArr(x) -> x.v
      [] IsStr(x) -> [i \in 1..Len(x.v) |-> Str(<<x.v[i]>>)]
      [] IsObj(x) -> [i \in 1..Len(x.v) |-> Str(x.v[i][1])]

run(func_name, args, g) ==
    IF IsArr(func_name) \/ IsObj(func_name)
    THEN Raised(Exception("TypeError", <<"unhashable type">>), g.THING)
    ELSE IF IsStr(func_name) /\ func_name.v \in EntryPointNames
    THEN IF IsNum(args)
         THEN Raised(Exception("TypeError", <<"argument after * must be an iterable">>),
                     g.THING)
         ELSE LET a == Unpack(args)
                  r == CASE func_name.v = <<"set_thing">> -> set_thing(a, g)
                         [] func_name.v = <<"get_thing">> -> get_thing(a, g)
                         [] func_name.v = <<"print_env_var_foo">> ->
                              print_env_var_foo(a, g)
                         [] func_name.v = <<"exit">> -> exit(a, g)
              IN  [r EXCEPT !.called = <<[name |-> func_name.v, args |-> a]>>]
    ELSE Raised(Exception("NameError", error_message(func_name)), g.THING)

(***************************************************************************)
(* Handler.handle: one request object (server.py lines 159-175).  S is the *)
(* state of the serving process while it handles a line of connection     *)
(* conn: THING, environ,                                                   *)
(* the relay messages written so far to the connection (out), one record   *)
(* per request object dispatched (ops), and whether the process is still   *)
(* running (up) or has ended with an exit code (code).                     *)
(***************************************************************************)
\* the exit code noted and the process left running
clean_exitConnection(S, exit_value) == [S EXCEPT !.code = exit_value]

clean_exit(S, exit_value) == [S EXCEPT !.up = FALSE, !.code = exit_value]

\* x[k] for a str key k
CanSubscript(x, k) == IsObj(x) /\ HasKey(x, k)
SubscriptError(x, k) ==
    IF IsObj(x) THEN Exception("KeyError", k)
    ELSE Exception("TypeError", <<"indices must be integers">>)

\* the request's environment laid over the one in place instead of replacing it
TryRequestMerge(S, request) ==
    LET old == S.environ
        new == GetKey(request, Key.env)
        merged == Obj(new.v \o SelectSeq(old.v, LAMBDA p : ~HasKey(new, p[1])))
        e == IF IsObj(new) /\ IsObj(old) THEN merged ELSE new
    IN  IF ~CanSubscript(request, Key.env)
        THEN [environ |-> S.environ,
              res |-> Raised(SubscriptError(request, Key.env), S.THING)]
        ELSE IF ~CanSubscript(request, Key.function_name)
        THEN [environ |-> e,
              res |-> Raised(SubscriptError(request, Key.function_name), S.THING)]
        ELSE IF ~CanSubscript(request, Key.args)
        THEN [environ |-> e,
              res |-> Raised(SubscriptError(request, Key.args), S.THING)]
        ELSE [environ |-> e,
              res |-> run(GetKey(request, Key.function_name),
                          GetKey(request, Key.args),
                          [THING |-> S.THING, environ |-> e])]

\* the try body of lines 160-161: the environment it leaves and the call's result
TryRequest(S, request) ==
    IF ~CanSubscript(request, Key.env)
    THEN [environ |-> S.environ,
          res |-> Raised(SubscriptError(request, Key.env), S.THING)]
    ELSE LET e == GetKey(request, Key.env)
         IN  IF ~CanSubscript(request, Key.function_name)
             THEN [environ |-> e,
                   res |-> Raised(SubscriptError(request, Key.function_name), S.THING)]
             ELSE IF ~CanSubscript(request, Key.args)
             THEN [environ |-> e,
                   res |-> Raised(SubscriptError(request, Key.args), S.THING)]
             ELSE [environ |-> e,
                   res |-> run(GetKey(request, Key.function_name),
                               GetKey(request, Key.args),
                               [THING |-> S.THING, environ |-> e])]

\* what the three endings of the try write after the handler's own output
OnReturn == tell_client_to_exit(Num(0))
OnSystemExit(code) ==
    print(ClientName.print_server_stdout, ShuttingDown) \o tell_client_to_exit(code)
\* the except block without its first line: no traceback is relayed
OnExceptionSilent(exc) ==
    print(ClientName.print_server_stdout, ShuttingDown)
        \o tell_client_to_exit(Num(1))

OnException(exc) ==
    print(ClientName.print_server_stderr, format_exc(exc))
        \o print(ClientName.print_server_stdout, ShuttingDown)
        \o tell_client_to_exit(Num(1))

\* the relay messages of one request on the stream: what the handler wrote
\* while it ran, then what the ending of the try wrote
EmitExitFirst(written, ending) == ending \o written

Emit(written, ending) == written \o ending

\* the ending of the try for what its body did (t), lines 162-175
Respond(S, request, t) ==
    LET r == t.res
        ending == CASE r.kind = "return" -> OnReturn
                    [] r.kind = "SystemExit" -> OnSystemExit(r.code)
                    [] r.kind = "Exception" -> OnException(r.exc)
        op == [conn |-> S.conn, request |-> request, kind |-> r.kind,
               called |-> r.called,
               code |-> CASE r.kind = "return" -> Num(0)
                          [] r.kind = "SystemExit" -> r.code
                          [] r.kind = "Exception" -> Num(1),
               out |-> Emit(r.out, ending),
               first |-> Len(S.out) + 1, wrote |-> Len(r.out),
               last |-> Len(S.out) + Len(r.out) + Len(ending)]
        S1 == [S EXCEPT !.THING = r.THING, !.environ = t.environ,
                        !.out = S.out \o Emit(r.out, ending),
                        !.ops = Append(S.ops, op)]
    IN  IF r.kind = "return" THEN S1 ELSE clean_exit(S1, 0)

Dispatch(S, request) == Respond(S, request, TryRequest(S, request))

\* the except block taken to clear the stored variable as well
DecodeFailureClears(S) ==
    clean_exit([S EXCEPT !.THING = Unset,
                         !.out = S.out
                    \o OnException(Exception("JSONDecodeError", <<"Expecting">>))],
               1)

\* the except block of lines 178-182
DecodeFailure(S) ==
    clean_exit([S EXCEPT !.out = S.out
                    \o OnException(Exception("JSONDecodeError", <<"Expecting">>))],
               1)

\* "if" where the code has "while": one object per buffer
LoopGuardOnce(message, msg_pos) == msg_pos = 0 /\ msg_pos < Len(message) - 1

\* while msg_pos < len(message) - 1 (server.py line 155, client.py line 101)
LoopGuard(message, msg_pos) == msg_pos < Len(message) - 1

\* the while loop of lines 155-157 over one stripped line
RECURSIVE RequestLoop(_, _, _)
RECURSIVE LoopBody(_, _, _)

\* line 156 has given d: the request is dispatched, or raw_decode has raised
LoopBody(S, message_from_client, d) ==
    IF d.ok
    THEN RequestLoop(Dispatch(S, d.val), message_from_client, d.end)
    ELSE DecodeFailure(S)

RequestLoop(S, message_from_client, msg_pos) ==
    IF S.up /\ LoopGuard(message_from_client, msg_pos)
    THEN LoopBody(S, message_from_client, raw_decode(message_from_client, msg_pos))
    ELSE S

(***************************************************************************)
(* The client's reply loop body (client.py lines 96-108) over one recv     *)
(* chunk.  K is the client process: the relay messages it has dispatched   *)
(* (events), the decode errors it has printed (errors), whether it still   *)
(* runs (up) and its exit status (code).                                   *)
(***************************************************************************)
\* the status of a process that ended in sys.exit(x)
ExitStatus(x) == IF IsNum(x) THEN x.v % 256 ELSE 1

ClientExit(K, status) == [K EXCEPT !.up = FALSE, !.code = status]

\* CLIENT_ENTRY_POINT.run(*[request[x] for x in ["function_name", "args"]])
ClientDispatch(K, request) ==
    IF ~CanSubscript(request, Key.function_name) \/ ~CanSubscript(request, Key.args)
    THEN ClientExit(K, 1)        \* uncaught TypeError / KeyError
    ELSE LET func_name == GetKey(request, Key.function_name)
             a == GetKey(request, Key.args)
         IN  IF IsArr(func_name) \/ IsObj(func_name) THEN ClientExit(K, 1)
             ELSE IF ~(IsStr(func_name)
                        /\ func_name.v \in {ClientName.print_server_stdout,
                                            ClientName.print_server_stderr,
                                            ClientName._exit})
             THEN ClientExit(K, 1)        \* "not in valid entry points", sys.exit(1)
             ELSE IF IsNum(a) \/ Len(Unpack(a)) # 1
             THEN ClientExit(K, 1)        \* uncaught TypeError
             ELSE LET K1 == [K EXCEPT !.events = Append(K.events, request)]
                  IN  IF func_name.v = ClientName._exit
                      THEN ClientExit(K1, ExitStatus(Unpack(a)[1]))
                      ELSE K1

\* the except of lines 107-108 taken as the end of the client
OnDecodeErrorFatal(K) == ClientExit([K EXCEPT !.errors = @ + 1], 1)

\* except json.decoder.JSONDecodeError: print(exception); back to recv
OnDecodeError(K) == [K EXCEPT !.errors = @ + 1]

RECURSIVE ReplyLoop(_, _, _)
ReplyLoop(K, message_from_server, msg_pos) ==
    IF K.up /\ LoopGuard(message_from_server, msg_pos)
    THEN LET d == raw_decode(message_from_server, msg_pos)
         IN  IF d.ok
             THEN ReplyLoop(ClientDispatch(K, d.val), message_from_server, d.end)
             ELSE OnDecodeError(K)
    ELSE K

(***************************************************************************)
(* Inputs.  A request line is what client.py sends for an argv and an      *)
(* environment (lines 86-90), or a line some other program writes to the   *)
(* socket.                                                                 *)
(***************************************************************************)
NConn == 2

Conn == 1..NConn

EnvFoo == Obj(<< << <<"foo">>, Str(<<"bar">>) >> >>)
EnvHome == Obj(<< << <<"HOME">>, Str(<<"/root">>) >> >>)

\* the server's own environment at start
ServerEnv == Obj(<< << <<"foo">>, Str(<<"server">>) >> >>)

Request(func_name, a, e) ==
    Obj(<< <<Key.function_name, Str(func_name)>>,
           <<Key.args, Arr(a)>>,
           <<Key.env, e>> >>)

Hello == Str(<<"hello">>)

ClientRequests ==
    { Request(<<"set_thing">>, <<Hello>>, EnvFoo),
      Request(<<"get_thing">>, <<>>, EnvHome),
      Request(<<"print_env_var_foo">>, <<>>, EnvFoo),
      Request(<<"print_env_var_foo">>, <<>>, EnvHome),
      Request(<<"exit">>, <<>>, EnvFoo),
      Request(<<"exit">>, <<Str(<<"3">>)>>, EnvHome),
      Request(<<"does_not_exist">>, <<Hello>>, EnvHome),
      Request(<<"get_thing">>, <<Hello>>, EnvFoo) }

\* requests only another program can send: an int argument, a missing field
OtherRequests ==
    { Request(<<"exit">>, <<Num(3)>>, EnvFoo),
      Obj(<< <<Key.function_name, Str(<<"get_thing">>)>>, <<Key.args, Arr(<<>>)>> >>),
      Obj(<< <<Key.env, EnvHome>>, <<Key.args, Arr(<<>>)>> >>) }

GetThing == dumps(Request(<<"get_thing">>, <<>>, EnvHome))

\* lines that are not one JSON object each
OtherLines ==
    { <<"{">>,
      <<"{", QUOTE, "function_name">>,
      <<"x", "y">>,
      <<"7">>,
      <<"1", "7">>,
      GetThing \o <<"}">>,
      GetThing \o <<"x", "y">>,
      dumps(Request(<<"set_thing">>, <<Hello>>, EnvFoo)) \o GetThing,
      <<SPACE>> }

RequestLines ==
    {dumps(r) : r \in ClientRequests \cup OtherRequests} \cup OtherLines

\* client.py line 93
bufsize == 131072

\* recv may cut the stream at most MaxCut characters before or after the end
\* of a write of the server
MaxCut == 1

\* recv cuts a write of the server in two at most MaxSplit times
MaxSplit == 1

(***************************************************************************)
(* State                                                                   *)
(***************************************************************************)
VARIABLES
    up,         \* the server process runs (serve_forever)
    code,       \* its exit status once it has ended
    THING,      \* the global THING of server.py
    environ,    \* os.environ of the server
    stdout,     \* the connection sys.stdout / sys.stderr write to; 0: the originals
    cur,        \* the connection handle() is serving; 0: none, accept() is waiting
    backlog,    \* connections made and not yet accepted, oldest first
    pc,         \* each client: "start", "connected", "recv", "exited"
    status,     \* each client's exit status once it has exited
    rfile,      \* each connection: characters sent to the server and not yet read
    wire,       \* each connection: characters written by the server and not yet received
    marks,      \* each connection: where in wire the writes of the server end
    splits,     \* how many times recv has cut a write in two
    closed,     \* each connection: the server has closed its end
    line,       \* each connection: the last line the server read from it
    sent,       \* each connection: the relay messages the server wrote to it
    ops,        \* each connection: one record per request object dispatched
    events,     \* each connection: the relay messages its client dispatched
    errors,     \* each client: the JSONDecodeErrors it has printed
    connection_attempts,    \* each client: its failed calls of connect
    slept,      \* each client: the delays it has slept, in tenths of a second
    eofs,       \* each client: how many times recv has returned b""
    handlers,   \* handle() taken step by step: where each connection's call is
    written,    \* the relay taken alone: the calls of write, in order
    message,    \* the decode loop taken alone: the buffer it runs over
    msg_pos,    \* its offset into the buffer
    decoded,    \* the values it has handed to dispatch, in order
    loop        \* "idle", "running", "ended" or "raised" (JSONDecodeError)

vars == <<up, code, THING, environ, stdout, cur, backlog, pc, status,
          rfile, wire, marks, splits, closed, line, sent, ops, events, errors,
          connection_attempts, slept, eofs, handlers, written, message, msg_pos,
          decoded, loop>>

decodeVars == <<message, msg_pos, decoded, loop>>

serverVars == <<up, code, THING, environ, stdout, cur>>
wireVars == <<wire, marks, splits>>
clientVars == <<pc, status, events, errors, connection_attempts, slept, eofs>>
retryVars == <<connection_attempts, slept>>

NoLine == <<"no line">>

\* no call of handle() for a connection
NoHandler ==
    [phase |-> "none", msg_pos |-> 0, request |-> Unset, result |-> Unset,
     observed |-> Unset]

\* nothing has happened yet: no client has started, nothing was dispatched
Fresh ==
    /\ code = 0
    /\ THING = Unset
    /\ environ = ServerEnv
    /\ stdout = 0
    /\ cur = 0
    /\ backlog = <<>>
    /\ pc = [c \in Conn |-> "start"]
    /\ status = [c \in Conn |-> 0]
    /\ rfile = [c \in Conn |-> <<>>]
    /\ wire = [c \in Conn |-> <<>>]
    /\ marks = [c \in Conn |-> {0}]
    /\ splits = 0
    /\ closed = [c \in Conn |-> FALSE]
    /\ line = [c \in Conn |-> NoLine]
    /\ sent = [c \in Conn |-> <<>>]
    /\ ops = [c \in Conn |-> <<>>]
    /\ events = [c \in Conn |-> <<>>]
    /\ errors = [c \in Conn |-> 0]
    /\ connection_attempts = [c \in Conn |-> 0]
    /\ slept = [c \in Conn |-> <<>>]
    /\ eofs = [c \in Conn |-> 0]
    /\ handlers = [c \in Conn |-> NoHandler]
    /\ written = <<>>

\* the server listens, no client has started
Idle == up = TRUE /\ Fresh

Init ==
    /\ Idle
    /\ message = <<>>
    /\ msg_pos = 0
    /\ decoded = <<>>
    /\ loop = "idle"

(***************************************************************************)
(* Client steps (client.py main)                                           *)
(***************************************************************************)
\* client.connect(SOCKET_NAME) succeeds: the server is listening.  The
\* connections are numbered in the order in which they are made.
Connect(c) ==
    /\ pc[c] = "start"
    /\ IF c = 1 THEN TRUE ELSE pc[c - 1] # "start"
    /\ up
    /\ pc' = [pc EXCEPT ![c] = "connected"]
    /\ backlog' = Append(backlog, c)
    /\ UNCHANGED <<decodeVars, handlers, written, serverVars, status, rfile, wireVars, closed, line,
                   sent, ops, events, errors, retryVars, eofs>>

\* client.py line 77: the attempts after which the client gives up
MaxAttempts == 10

\* one more attempt after n failed ones, although n has reached MaxAttempts
RetryOnceMore(n) == n <= MaxAttempts

\* if connection_attempts < 10
Retry(n) == n < MaxAttempts

\* time.sleep(connection_attempts * 0.1), in tenths of a second
SleepTenths(n) == n

\* client.connect(SOCKET_NAME) raises ConnectionRefusedError or
\* FileNotFoundError: nothing listens.  Lines 74-82.
ConnectRefused(c) ==
    /\ pc[c] = "start"
    /\ IF c = 1 THEN TRUE ELSE pc[c - 1] # "start"
    /\ ~up
    /\ LET n == connection_attempts[c] + 1
       IN  /\ connection_attempts' = [connection_attempts EXCEPT ![c] = n]
           /\ IF Retry(n)
              THEN /\ slept' = [slept EXCEPT ![c] = Append(slept[c], SleepTenths(n))]
                   /\ UNCHANGED <<pc, status>>
              ELSE \* the diagnostic on stderr, sys.exit(1)
                   /\ pc' = [pc EXCEPT ![c] = "exited"]
                   /\ status' = [status EXCEPT ![c] = 1]
                   /\ UNCHANGED slept
    /\ UNCHANGED <<decodeVars, handlers, written, serverVars, backlog, rfile, wireVars, closed, line,
                   sent, ops, events, errors, eofs>>

\* client.sendall(request + "\n")
Send(c) ==
    /\ pc[c] = "connected"
    /\ ~closed[c]
    /\ \E l \in RequestLines :
           rfile' = [rfile EXCEPT ![c] = l \o <<NEWLINE>>]
    /\ pc' = [pc EXCEPT ![c] = "recv"]
    /\ UNCHANGED <<decodeVars, handlers, written, serverVars, backlog, status, wireVars, closed, line,
                   sent, ops, events, errors, retryVars, eofs>>

\* one pass of the reply loop: recv gives the first n pending characters
Recv(c) ==
    /\ pc[c] = "recv"
    /\ \E n \in 1..Len(wire[c]) :
         /\ n <= bufsize
         /\ \E e \in marks[c] : e - MaxCut <= n /\ n <= e + MaxCut
         /\ n \notin marks[c] => splits < MaxSplit
         /\ splits' = IF n \in marks[c] THEN splits ELSE splits + 1
         /\ marks' = [marks EXCEPT ![c] = {e - n : e \in {m \in marks[c] : m >= n}}]
         /\ LET message_from_server == strip(SubSeq(wire[c], 1, n))
                K == ReplyLoop([events |-> events[c], errors |-> errors[c],
                                up |-> TRUE, code |-> 0],
                               message_from_server, 0)
            IN  /\ wire' = [wire EXCEPT ![c] = SubSeq(wire[c], n + 1, Len(wire[c]))]
                /\ events' = [events EXCEPT ![c] = K.events]
                /\ errors' = [errors EXCEPT ![c] = K.errors]
                /\ pc' = [pc EXCEPT ![c] = IF K.up THEN "recv" ELSE "exited"]
                /\ status' = [status EXCEPT ![c] = K.code]
    /\ UNCHANGED <<decodeVars, handlers, written, serverVars, backlog, rfile, closed, line, sent, ops,
                   retryVars, eofs>>

\* the empty results of recv that are followed one by one
MaxEOF == 2

\* recv returns b"" because the server has closed the connection and all it
\* wrote has been received: "if message_from_server:" is false, and the
\* while True of line 95 goes on
RecvEOF(c) ==
    /\ pc[c] = "recv"
    /\ wire[c] = <<>>
    /\ closed[c]
    /\ eofs[c] < MaxEOF
    /\ eofs' = [eofs EXCEPT ![c] = eofs[c] + 1]
    /\ UNCHANGED <<decodeVars, handlers, written, serverVars, backlog, rfile, wireVars, closed, line,
                   sent, ops, pc, status, events, errors, retryVars>>

\* the server process has ended without accepting the connection: the
\* client's next call on the socket raises ConnectionResetError or
\* BrokenPipeError, which nothing catches
Reset(c) ==
    /\ pc[c] \in {"connected", "recv"}
    /\ closed[c]
    /\ line[c] = NoLine
    /\ pc' = [pc EXCEPT ![c] = "exited"]
    /\ status' = [status EXCEPT ![c] = 1]
    /\ UNCHANGED <<decodeVars, handlers, written, serverVars, backlog, rfile, wireVars, closed, line,
                   sent, ops, events, errors, retryVars, eofs>>

(***************************************************************************)
(* Server steps (socketserver.UnixStreamServer with Handler)               *)
(***************************************************************************)
\* the connection accepted with sys.stdout and sys.stderr left as they were
AcceptNoRebind ==
    /\ up
    /\ cur = 0
    /\ backlog # <<>>
    /\ cur' = Head(backlog)
    /\ backlog' = Tail(backlog)
    /\ UNCHANGED <<decodeVars, handlers, written, up, code, THING, environ, stdout, clientVars,
                   rfile, wireVars, closed, line, sent, ops>>

\* serve_forever accepts the oldest pending connection; handle() rebinds
\* sys.stdout and sys.stderr to it (lines 145-146)
Accept ==
    /\ up
    /\ cur = 0
    /\ backlog # <<>>
    /\ cur' = Head(backlog)
    /\ stdout' = Head(backlog)
    /\ backlog' = Tail(backlog)
    /\ UNCHANGED <<decodeVars, handlers, written, up, code, THING, environ, clientVars, rfile,
                   wireVars, closed, line, sent, ops>>

\* the messages of out that reach connection d while connection c is served:
\* the exit directive is written to self.wfile (line 112), everything else
\* through sys.stdout and sys.stderr, which are bound to connection bound
RECURSIVE Route(_, _, _, _)
Route(out, c, bound, d) ==
    IF out = <<>> THEN <<>>
    ELSE LET to == IF GetKey(Head(out), Key.function_name).v = ClientName._exit
                   THEN c
                   ELSE bound
         IN  (IF to = d THEN <<Head(out)>> ELSE <<>>) \o Route(Tail(out), c, bound, d)

\* the pass of the loop over the stripped line, S being the process after it
Pass(c, message_from_client, S, out) ==
    /\ rfile' = [rfile EXCEPT ![c] = <<>>]
    /\ line' = [line EXCEPT ![c] = message_from_client]
    /\ IF message_from_client = <<>>
       THEN \* "if not message_from_client: return"
            /\ cur' = 0
            /\ closed' = [closed EXCEPT ![c] = TRUE]
            /\ UNCHANGED <<up, code, THING, environ, stdout, wire, marks, sent, ops>>
       ELSE /\ THING' = S.THING
            /\ environ' = S.environ
            /\ sent' = [d \in Conn |-> sent[d] \o out[d]]
            /\ wire' = [d \in Conn |-> wire[d] \o DumpAll(out[d])]
            /\ marks' = [d \in Conn |-> marks[d] \cup
                   {Len(wire[d]) + Len(DumpAll(SubSeq(out[d], 1, i))) :
                        i \in 1..Len(out[d])}]
            /\ ops' = [ops EXCEPT ![c] = ops[c] \o S.ops]
            /\ up' = S.up
            /\ code' = S.code
            /\ stdout' = IF S.up THEN stdout ELSE 0
            /\ cur' = IF S.up THEN cur ELSE 0
            /\ closed' = IF S.up THEN closed ELSE [d \in Conn |-> TRUE]

\* what the process S has written, by the connection it reached
Routed(S, c) == [d \in Conn |-> Route(S.out, c, stdout, d)]

\* the process as handle() finds it when it reads a line of connection c
Serving(c) ==
    [conn |-> c, THING |-> THING, environ |-> environ, out |-> <<>>,
     ops |-> <<>>, up |-> TRUE, code |-> 0]

\* the line read, handled by the process S
Handled(c, message_from_client, S) ==
    Pass(c, message_from_client, S, Routed(S, c))

\* readline() gives a line: lines 151-182
ReadLine ==
    /\ up
    /\ cur # 0
    /\ rfile[cur] # <<>>
    /\ Handled(cur, strip(rfile[cur]), RequestLoop(Serving(cur), strip(rfile[cur]), 0))
    /\ UNCHANGED <<decodeVars, handlers, written, backlog, clientVars, splits>>

\* the empty read taken for the end of the service
ReadEOFShutdown ==
    /\ up
    /\ cur # 0
    /\ rfile[cur] = <<>>
    /\ pc[cur] = "exited"
    /\ cur' = 0
    /\ stdout' = 0
    /\ up' = FALSE
    /\ closed' = [d \in Conn |-> TRUE]
    /\ UNCHANGED <<decodeVars, handlers, written, code, THING, environ, backlog, clientVars, rfile,
                   wireVars, line, sent, ops>>

\* readline() gives "" because the client has closed: handle() returns
ReadEOF ==
    /\ up
    /\ cur # 0
    /\ rfile[cur] = <<>>
    /\ pc[cur] = "exited"
    /\ cur' = 0
    /\ closed' = [closed EXCEPT ![cur] = TRUE]
    /\ UNCHANGED <<decodeVars, handlers, written, up, code, THING, environ, stdout, backlog,
                   clientVars, rfile, wireVars, line, sent, ops>>

Next ==
    \/ \E c \in Conn : Connect(c)
    \/ \E c \in Conn : ConnectRefused(c)
    \/ \E c \in Conn : Send(c)
    \/ \E c \in Conn : Recv(c)
    \/ \E c \in Conn : RecvEOF(c)
    \/ \E c \in Conn : Reset(c)
    \/ Accept
    \/ ReadLine
    \/ ReadEOF

Spec == Init /\ [][Next]_vars

(***************************************************************************)
(* The client's connect loop (client.py lines 70-90) with a server that is *)
(* started at any moment, or never.                                        *)
(***************************************************************************)
InitNoListener ==
    /\ up = FALSE
    /\ Fresh
    /\ message = <<>>
    /\ msg_pos = 0
    /\ decoded = <<>>
    /\ loop = "idle"

\* server.py main, lines 191-198: the socket is created, serve_forever runs
Start ==
    /\ ~up
    /\ \A c \in Conn : line[c] = NoLine
    /\ up' = TRUE
    /\ UNCHANGED <<decodeVars, handlers, written, code, THING, environ, stdout, cur, backlog, clientVars,
                   rfile, wireVars, closed, line, sent, ops>>

NextConnect ==
    \/ Start
    \/ \E c \in Conn : Connect(c)
    \/ \E c \in Conn : ConnectRefused(c)
    \/ \E c \in Conn : Send(c)

SpecConnect == InitNoListener /\ [][NextConnect]_vars

(***************************************************************************)
(* The output relay taken alone (server.py lines 125-140): while a         *)
(* connection is served, sys.stdout and sys.stderr are its two wrappers    *)
(* and any text may be written to either.                                  *)
(***************************************************************************)
\* at most MaxWrites calls of write
MaxWrites == 3

Texts ==
    { <<>>, <<SPACE>>, <<NEWLINE>>, <<SPACE, NEWLINE>>, <<"hello">>,
      <<SPACE, "hello", NEWLINE>> }

\* sys.stdout.write(text) or sys.stderr.write(text) during handle()
Write(client_function_name, text) ==
    /\ up
    /\ cur # 0
    /\ stdout = cur
    /\ Len(written) < MaxWrites
    /\ written' = Append(written, [target |-> client_function_name, text |-> text])
    /\ LET out == write(client_function_name, text)
       IN  /\ sent' = [sent EXCEPT ![stdout] = sent[stdout] \o out]
           /\ wire' = [wire EXCEPT ![stdout] = wire[stdout] \o DumpAll(out)]
           /\ marks' = [marks EXCEPT ![stdout] =
                  marks[stdout] \cup {Len(wire[stdout]) + Len(DumpAll(out))}]
    /\ UNCHANGED <<decodeVars, handlers, serverVars, backlog, clientVars, rfile, splits, closed,
                   line, ops>>

NextWrite ==
    \/ \E c \in Conn : Connect(c)
    \/ Accept
    \/ \E f \in {ClientName.print_server_stdout, ClientName.print_server_stderr} :
          \E text \in Texts : Write(f, text)

SpecWrite == Init /\ [][NextWrite]_vars

(***************************************************************************)
(* The decode loop taken alone (server.py lines 155-157, client.py lines   *)
(* 101-105): parse the next value at msg_pos, hand it to dispatch, advance *)
(* msg_pos, while msg_pos < len - 1.  Dispatch here only records the       *)
(* value.  The buffers are JSON texts written one after the other with no  *)
(* separator.                                                              *)
(***************************************************************************)
\* a buffer is made of at most MaxObjects texts
MaxObjects == 3

DecodeObjects ==
    { Obj(<<>>),
      RelayMessage(ClientName.print_server_stdout, Hello),
      RelayMessage(ClientName.print_server_stderr, Str(<<QUOTE, BACKSLASH, NEWLINE>>)),
      RelayMessage(ClientName._exit, Num(0)),
      Request(<<"get_thing">>, <<>>, EnvHome) }

\* texts that are no object: a one-character number, no JSON at all
DecodeOthers == { <<"7">>, <<"x", "y">> }

SeqsUpTo(S, n) == UNION {[1..k -> S] : k \in 1..n}

RECURSIVE Concat(_)
Concat(texts) == IF texts = <<>> THEN <<>> ELSE Head(texts) \o Concat(Tail(texts))

DecodeBuffers ==
    {Concat(texts) : texts \in SeqsUpTo({dumps(o) : o \in DecodeObjects} \cup DecodeOthers,
                                        MaxObjects)}

DecodeInit ==
    /\ Idle
    /\ message \in DecodeBuffers
    /\ msg_pos = 0
    /\ decoded = <<>>
    /\ loop = "running"

\* one pass of the loop body: raw_decode succeeds
DecodeNext ==
    /\ loop = "running"
    /\ LoopGuard(message, msg_pos)
    /\ LET d == raw_decode(message, msg_pos)
       IN  /\ d.ok
           /\ decoded' = Append(decoded, d.val)
           /\ msg_pos' = d.end
    /\ UNCHANGED <<message, loop>>
    /\ UNCHANGED <<handlers, written, serverVars, backlog, clientVars, rfile, wireVars, closed, line,
                   sent, ops>>

\* raw_decode raises JSONDecodeError: the loop is left through the except
DecodeRaise ==
    /\ loop = "running"
    /\ LoopGuard(message, msg_pos)
    /\ ~raw_decode(message, msg_pos).ok
    /\ loop' = "raised"
    /\ UNCHANGED <<message, msg_pos, decoded>>
    /\ UNCHANGED <<handlers, written, serverVars, backlog, clientVars, rfile, wireVars, closed, line,
                   sent, ops>>

\* the loop condition is false
DecodeEnd ==
    /\ loop = "running"
    /\ ~LoopGuard(message, msg_pos)
    /\ loop' = "ended"
    /\ UNCHANGED <<message, msg_pos, decoded>>
    /\ UNCHANGED <<handlers, written, serverVars, backlog, clientVars, rfile, wireVars, closed, line,
                   sent, ops>>

NextDecode == DecodeNext \/ DecodeRaise \/ DecodeEnd

SpecDecode == DecodeInit /\ [][NextDecode]_vars

(***************************************************************************)
(* Handler.handle taken one step at a time (server.py lines 143-182), with *)
(* the clients of the service around it: accept and rebind, readline, the  *)
(* while test with raw_decode and the replacement of os.environ, the call  *)
(* of run, and the ending of the try.  handlers[c].phase is where the call *)
(* of handle() for connection c stands: "none", "readline", "while",       *)
(* "env" (os.environ replaced, run not yet called) or "ran" (run has       *)
(* ended, nothing sent for its ending yet).                                *)
(***************************************************************************)
\* line 161 once line 160 has passed, against the process-wide state g
Call(request, g) ==
    IF ~CanSubscript(request, Key.env)
    THEN Raised(SubscriptError(request, Key.env), g.THING)
    ELSE IF ~CanSubscript(request, Key.function_name)
    THEN Raised(SubscriptError(request, Key.function_name), g.THING)
    ELSE IF ~CanSubscript(request, Key.args)
    THEN Raised(SubscriptError(request, Key.args), g.THING)
    ELSE run(GetKey(request, Key.function_name), GetKey(request, Key.args), g)

\* out is written while connection c is served
Delivered(out) ==
    /\ sent' = [d \in Conn |-> sent[d] \o out[d]]
    /\ wire' = [d \in Conn |-> wire[d] \o DumpAll(out[d])]
    /\ marks' = [d \in Conn |-> marks[d] \cup
           {Len(wire[d]) + Len(DumpAll(SubSeq(out[d], 1, i))) : i \in 1..Len(out[d])}]

Deliver(out, c) == Delivered([d \in Conn |-> Route(out, c, stdout, d)])

\* clean_exit: the channels restored, the process ended
Exits(exit_value) ==
    /\ up' = FALSE
    /\ code' = exit_value
    /\ stdout' = 0
    /\ cur' = 0
    /\ closed' = [d \in Conn |-> TRUE]
    /\ handlers' = [d \in Conn |-> [handlers[d] EXCEPT !.phase = "none"]]

\* a server that starts handle() for a connection while another call of
\* handle() is under way
HandleStartThreaded ==
    /\ up
    /\ backlog # <<>>
    /\ cur' = Head(backlog)
    /\ stdout' = Head(backlog)
    /\ backlog' = Tail(backlog)
    /\ handlers' = [handlers EXCEPT ![Head(backlog)].phase = "readline"]
    /\ UNCHANGED <<decodeVars, written, up, code, THING, environ, clientVars, rfile,
                   wireVars, closed, line, sent, ops>>

\* serve_forever accepts the oldest pending connection when no call of
\* handle() is under way; lines 145-146 rebind sys.stdout and sys.stderr
HandleStart ==
    /\ up
    /\ cur = 0
    /\ backlog # <<>>
    /\ cur' = Head(backlog)
    /\ stdout' = Head(backlog)
    /\ backlog' = Tail(backlog)
    /\ handlers' = [handlers EXCEPT ![Head(backlog)].phase = "readline"]
    /\ UNCHANGED <<decodeVars, written, up, code, THING, environ, clientVars, rfile,
                   wireVars, closed, line, sent, ops>>

\* lines 151-153 with a line to read
HandleReadline(c) ==
    /\ up
    /\ handlers[c].phase = "readline"
    /\ rfile[c] # <<>>
    /\ rfile' = [rfile EXCEPT ![c] = <<>>]
    /\ line' = [line EXCEPT ![c] = strip(rfile[c])]
    /\ IF strip(rfile[c]) = <<>>
       THEN /\ handlers' = [handlers EXCEPT ![c].phase = "none"]
            /\ cur' = 0
            /\ closed' = [closed EXCEPT ![c] = TRUE]
       ELSE /\ handlers' = [handlers EXCEPT ![c].phase = "while", ![c].msg_pos = 0]
            /\ UNCHANGED <<cur, closed>>
    /\ UNCHANGED <<decodeVars, written, up, code, THING, environ, stdout, backlog,
                   clientVars, wireVars, sent, ops>>

\* lines 151-153 when the client has closed: readline() gives ""
HandleReturn(c) ==
    /\ up
    /\ handlers[c].phase = "readline"
    /\ rfile[c] = <<>>
    /\ pc[c] = "exited"
    /\ handlers' = [handlers EXCEPT ![c].phase = "none"]
    /\ cur' = 0
    /\ closed' = [closed EXCEPT ![c] = TRUE]
    /\ UNCHANGED <<decodeVars, written, up, code, THING, environ, stdout, backlog,
                   clientVars, rfile, wireVars, line, sent, ops>>

\* lines 156 and 160 for what raw_decode gave, lines 178-182 when it raised
HandleDecoded(c, d) ==
    IF d.ok
    THEN /\ handlers' = [handlers EXCEPT ![c].phase = "env",
                                         ![c].msg_pos = d.end,
                                         ![c].request = d.val]
         /\ environ' = IF CanSubscript(d.val, Key.env)
                       THEN GetKey(d.val, Key.env)
                       ELSE environ
         /\ UNCHANGED <<up, code, stdout, cur, closed, sent, wire, marks>>
    ELSE /\ Deliver(OnException(Exception("JSONDecodeError", <<"Expecting">>)), c)
         /\ Exits(1)
         /\ UNCHANGED environ

\* lines 155-156 and 160: the while test, raw_decode, os.environ replaced;
\* lines 178-182 when raw_decode raises
HandleDecode(c) ==
    /\ up
    /\ handlers[c].phase = "while"
    /\ IF ~LoopGuard(line[c], handlers[c].msg_pos)
       THEN /\ handlers' = [handlers EXCEPT ![c].phase = "readline"]
            /\ UNCHANGED <<up, code, stdout, cur, closed, environ, sent, wire, marks>>
       ELSE HandleDecoded(c, raw_decode(line[c], handlers[c].msg_pos))
    /\ UNCHANGED <<decodeVars, written, THING, backlog, clientVars, rfile, splits, line,
                   ops>>

\* run has ended in res
Ran(c, res) ==
    /\ THING' = res.THING
    /\ Deliver(res.out, c)
    /\ handlers' = [handlers EXCEPT ![c].phase = "ran",
                                    ![c].result = res,
                                    ![c].observed = environ]

\* line 161: run is called and ends; what the handler prints is written
HandleRun(c) ==
    /\ up
    /\ handlers[c].phase = "env"
    /\ Ran(c, Call(handlers[c].request, [THING |-> THING, environ |-> environ]))
    /\ UNCHANGED <<decodeVars, written, up, code, environ, stdout, cur, backlog,
                   clientVars, rfile, splits, closed, line, ops>>

\* line 162, lines 165-168, lines 171-175: the ending of the try
HandleRespond(c) ==
    /\ up
    /\ handlers[c].phase = "ran"
    /\ LET r == handlers[c].result
       IN  CASE r.kind = "return" ->
                  /\ Deliver(OnReturn, c)
                  /\ handlers' = [handlers EXCEPT ![c].phase = "while"]
                  /\ UNCHANGED <<up, code, stdout, cur, closed>>
             [] r.kind = "SystemExit" ->
                  /\ Deliver(OnSystemExit(r.code), c)
                  /\ Exits(0)
             [] r.kind = "Exception" ->
                  /\ Deliver(OnException(r.exc), c)
                  /\ Exits(0)
    /\ UNCHANGED <<decodeVars, written, THING, environ, backlog, clientVars, rfile,
                   splits, line, ops>>

NextHandle ==
    \/ \E c \in Conn : Connect(c)
    \/ \E c \in Conn : Send(c)
    \/ \E c \in Conn : Recv(c)
    \/ HandleStart
    \/ \E c \in Conn : HandleReadline(c)
    \/ \E c \in Conn : HandleReturn(c)
    \/ \E c \in Conn : HandleDecode(c)
    \/ \E c \in Conn : HandleRun(c)
    \/ \E c \in Conn : HandleRespond(c)

SpecHandle == Init /\ [][NextHandle]_vars

(***************************************************************************)
(* Vocabulary of the properties                                            *)
(***************************************************************************)
IsPrefix(a, b) == Len(a) <= Len(b) /\ SubSeq(b, 1, Len(a)) = a

IsSuffix(a, b) == Len(a) <= Len(b) /\ SubSeq(b, Len(b) - Len(a) + 1, Len(b)) = a

\* a is b with some elements left out
RECURSIVE IsSubseq(_, _)
IsSubseq(a, b) ==
    IF a = <<>> THEN TRUE
    ELSE IF b = <<>> THEN FALSE
    ELSE IF Head(a) = Head(b) THEN IsSubseq(Tail(a), Tail(b))
    ELSE IsSubseq(a, Tail(b))

\* a relay message's client function and its one argument
RelayName(m) == GetKey(m, Key.function_name).v
RelayArg(m) == GetKey(m, Key.args).v[1]

IsExitDirective(m) == RelayName(m) = ClientName._exit
IsStdout(m) == RelayName(m) = ClientName.print_server_stdout
IsStderr(m) == RelayName(m) = ClientName.print_server_stderr

\* the first n relay messages up to and including the first exit directive
RECURSIVE UpToExit(_)
UpToExit(msgs) ==
    IF msgs = <<>> THEN <<>>
    ELSE IF IsExitDirective(Head(msgs)) THEN <<Head(msgs)>>
    ELSE <<Head(msgs)>> \o UpToExit(Tail(msgs))

(***************************************************************************)
(* C1: within one connection the relay messages of an operation are sent   *)
(* in the order written, all of them before that operation's exit          *)
(* directive, which is the last message of the operation; the stream holds *)
(* them in that order with nothing in between; and the client dispatches   *)
(* relay messages only in the order sent, the exit directive last (all of  *)
(* them, in order, as long as recv has cut no write in two).               *)
(***************************************************************************)
C1_ServerOrder(c) ==
    /\ \A i \in 1..Len(ops[c]) :
          LET op == ops[c][i]
          IN  /\ op.first = (IF i = 1 THEN 1 ELSE ops[c][i - 1].last + 1)
              /\ op.first + op.wrote <= op.last
              /\ op.last <= Len(sent[c])
              /\ IsExitDirective(sent[c][op.last])
              /\ \A j \in op.first..(op.last - 1) : ~IsExitDirective(sent[c][j])
              \* print(x): the text, then the newline
              /\ op.wrote = 2 =>
                    /\ RelayArg(sent[c][op.first]).v # <<NEWLINE>>
                    /\ RelayArg(sent[c][op.first + 1]).v = <<NEWLINE>>
    /\ IsSuffix(wire[c], DumpAll(sent[c]))

C1_ClientOrder(c) ==
    /\ IsSubseq(events[c], sent[c])
    /\ \A i \in 1..(Len(events[c]) - 1) : ~IsExitDirective(events[c][i])
    /\ splits = 0 => IsPrefix(events[c], UpToExit(sent[c]))

C1_OutputBeforeExit == \A c \in Conn : C1_ServerOrder(c) /\ C1_ClientOrder(c)

\* a client has dispatched the output of an operation and then its exit directive
C1_Witness ==
    \E c \in Conn :
        /\ pc[c] = "exited"
        /\ Len(ops[c]) >= 1 /\ ops[c][1].wrote >= 2
        /\ events[c] = SubSeq(sent[c], 1, ops[c][1].last)
        /\ IsExitDirective(events[c][Len(events[c])])

\* the requests dispatched so far, in the order the server dispatched them:
\* connections are served in the order they were made
RECURSIVE OpsUpTo(_)
OpsUpTo(c) == IF c = 0 THEN <<>> ELSE OpsUpTo(c - 1) \o ops[c]

GlobalOps == OpsUpTo(NConn)

\* a request as the data model has it: an operation name, an argument list
\* and an environment
IsRequest(request) ==
    /\ IsObj(request)
    /\ HasKey(request, Key.function_name) /\ IsStr(GetKey(request, Key.function_name))
    /\ HasKey(request, Key.args) /\ IsArr(GetKey(request, Key.args))
    /\ HasKey(request, Key.env) /\ IsObj(GetKey(request, Key.env))

OpName(op) == GetKey(op.request, Key.function_name).v
OpArgs(op) == GetKey(op.request, Key.args).v
OpEnv(op) == GetKey(op.request, Key.env)

IsRegistered(op) == IsRequest(op.request) /\ OpName(op) \in EntryPointNames

\* the client of connection c has dispatched the exit directive of its i-th
\* request and ended on it
EndedOn(c, i) ==
    /\ pc[c] = "exited"
    /\ events[c] # <<>>
    /\ events[c] = SubSeq(sent[c], 1, ops[c][i].last)

(***************************************************************************)
(* C2: a request for a registered operation op with argument list A makes  *)
(* the server invoke op's handler exactly once, with the elements of A as  *)
(* positional arguments in their order, and when the handler returns       *)
(* normally the client exits with code 0.                                  *)
(***************************************************************************)
C2_InvokedOnce(c) ==
    \A i \in 1..Len(ops[c]) :
        IsRegistered(ops[c][i]) =>
            ops[c][i].called = <<[name |-> OpName(ops[c][i]), args |-> OpArgs(ops[c][i])]>>

C2_ExitsZero(c) ==
    (/\ pc[c] = "exited"
     /\ Len(ops[c]) >= 1
     /\ IsRegistered(ops[c][1])
     /\ ops[c][1].kind = "return") => status[c] = 0

C2_InvokedOnceClientExitsZero == \A c \in Conn : C2_InvokedOnce(c) /\ C2_ExitsZero(c)

(***************************************************************************)
(* C3: a client that has sent its request ends with the exit code of the   *)
(* server's exit directive however recv cuts the response: once the whole  *)
(* response up to the exit directive has been received, the client has     *)
(* dispatched every relay message in the order sent and has exited with    *)
(* the code the directive carries.                                         *)
(***************************************************************************)
C3_EndsWithExitCode ==
    \A c \in Conn :
        (/\ pc[c] \in {"recv", "exited"}
         /\ \E i \in 1..Len(sent[c]) : IsExitDirective(sent[c][i])
         /\ wire[c] = <<>>)
        => /\ pc[c] = "exited"
           /\ events[c] = UpToExit(sent[c])
           /\ status[c] = ExitStatus(RelayArg(events[c][Len(events[c])]))

(***************************************************************************)
(* C4: over a buffer that is k >= 1 complete JSON objects written one      *)
(* after the other with no separator, the decode loop raises nothing,      *)
(* hands every object of the buffer to dispatch, in order, each as soon as *)
(* it is parsed (the offset is then the end of that object), and ends with *)
(* the offset equal to the length of the buffer.                           *)
(***************************************************************************)
C4_DecodeYieldsAll ==
    \A objects \in SeqsUpTo(DecodeObjects, MaxObjects) :
        message = DumpAll(objects) =>
            /\ loop # "raised"
            /\ IsPrefix(decoded, objects)
            /\ msg_pos = Len(DumpAll(decoded))
            /\ loop = "ended" => decoded = objects /\ msg_pos = Len(message)

\* the loop has ended over a buffer of two or more objects, the last one "{}"
C4_Witness ==
    /\ loop = "ended"
    /\ Len(decoded) >= 2
    /\ decoded[Len(decoded)] = Obj(<<>>)
    /\ message = DumpAll(decoded)
    /\ msg_pos = Len(message)

\* the dispatched requests that carry an environment, in dispatch order
EnvOps == SelectSeq(GlobalOps, LAMBDA op : CanSubscript(op.request, Key.env))

\* what print_env_var_foo prints under the environment e
FooOf(e) == IF HasKey(e, <<"foo">>) THEN PyStr(GetKey(e, <<"foo">>)) ELSE <<"None">>

(***************************************************************************)
(* C5: once a request has been dispatched, the server's environment is     *)
(* exactly the environment of the most recently dispatched request: no     *)
(* variable of an earlier request or of the server's own environment       *)
(* survives; and print_env_var_foo prints the value of foo in its own      *)
(* request's environment (None when that environment has no foo).          *)
(***************************************************************************)
C5_EnvironmentReplaced ==
    /\ EnvOps # <<>> => environ = OpEnv(EnvOps[Len(EnvOps)])
    /\ \A c \in Conn : \A i \in 1..Len(ops[c]) :
          LET op == ops[c][i]
          IN  (IsRequest(op.request) /\ OpName(op) = <<"print_env_var_foo">>
                  /\ OpArgs(op) = <<>>)
              => /\ op.kind = "return"
                 /\ op.wrote = 2
                 /\ RelayArg(sent[c][op.first]) = Str(FooOf(OpEnv(op)))

\* after a request whose environment has foo, a print_env_var_foo request
\* whose environment has no foo has printed None and the environment is its own
C5_Witness ==
    /\ up
    /\ Len(EnvOps) = 2
    /\ OpEnv(EnvOps[1]) = EnvFoo
    /\ OpEnv(EnvOps[2]) = EnvHome
    /\ OpName(EnvOps[2]) = <<"print_env_var_foo">>
    /\ RelayArg(sent[EnvOps[2].conn][EnvOps[2].first]) = Str(<<"None">>)
    /\ environ = EnvHome

(***************************************************************************)
(* C6: after a set_thing(v) request has returned normally, a get_thing     *)
(* request on a later connection, no other set_thing in between, emits v   *)
(* and its client exits with code 0.                                       *)
(***************************************************************************)
IsSetThing(op) ==
    IsRequest(op.request) /\ OpName(op) = <<"set_thing">> /\ Len(OpArgs(op)) = 1

IsGetThing(op) ==
    IsRequest(op.request) /\ OpName(op) = <<"get_thing">> /\ OpArgs(op) = <<>>

\* GlobalOps[i] is the set_thing whose value GlobalOps[j] should find
SetBefore(i, j) ==
    /\ i < j
    /\ IsSetThing(GlobalOps[i]) /\ GlobalOps[i].kind = "return"
    /\ IsGetThing(GlobalOps[j])
    /\ GlobalOps[i].conn < GlobalOps[j].conn
    /\ \A k \in (i + 1)..(j - 1) : ~IsSetThing(GlobalOps[k])

C6_GetEmitsSet(i, j) ==
    LET g == GlobalOps[j]
    IN  /\ g.kind = "return"
        /\ g.wrote = 2
        /\ RelayArg(sent[g.conn][g.first]) = Str(PyStr(OpArgs(GlobalOps[i])[1]))

C6_ThingPersists ==
    \A j \in 1..Len(GlobalOps) : \A i \in 1..(j - 1) :
        SetBefore(i, j) =>
            /\ C6_GetEmitsSet(i, j)
            /\ (pc[GlobalOps[j].conn] = "exited" /\ GlobalOps[j].first = 1)
                  => status[GlobalOps[j].conn] = 0

Range(f) == {f[i] : i \in DOMAIN f}

TracebackHead == "Traceback (most recent call last):"

\* m relays a traceback as error output
IsTraceback(m) == IsStderr(m) /\ IsStr(RelayArg(m)) /\ Head(RelayArg(m).v) = TracebackHead

\* the service process has ended with exit code n, sys.stdout and sys.stderr
\* are the original ones again and every connection is closed
ServiceEnded(n) ==
    /\ ~up
    /\ code = n
    /\ stdout = 0
    /\ cur = 0
    /\ \A c \in Conn : closed[c]

\* the messages of a failed request after what its handler wrote: the
\* traceback as error output, the shutdown notice, the exit directive 1
FailureRelayed(c, op) ==
    /\ op.last = op.first + op.wrote + 4
    /\ op.last = Len(sent[c])
    /\ IsTraceback(sent[c][op.first + op.wrote])
    /\ SubSeq(sent[c], op.first + op.wrote + 1, op.last - 1) =
          write(ClientName.print_server_stderr, <<NEWLINE>>)
              \o print(ClientName.print_server_stdout, ShuttingDown)
    /\ sent[c][op.last] = RelayMessage(ClientName._exit, Num(1))

\* the client of connection c has received the whole response
ReceivedAll(c) == pc[c] \in {"recv", "exited"} /\ wire[c] = <<>>

IsUnknown(op) == IsRequest(op.request) /\ OpName(op) \notin EntryPointNames

(***************************************************************************)
(* C7: a request naming an operation that is not registered invokes no     *)
(* handler; the error, which lists every registered operation name, is     *)
(* relayed as error output; the exit directive 1 follows; the service      *)
(* shuts down; and the client, once it has received the response, has      *)
(* exited with code 1.                                                     *)
(***************************************************************************)
C7_ServerSide(c, op) ==
    /\ op.kind = "Exception"
    /\ op.called = <<>>
    /\ op.wrote = 0
    /\ FailureRelayed(c, op)
    /\ \A e \in Range(_valid_entry_points) :
          \A ch \in Range(e.name) : ch \in Range(RelayArg(sent[c][op.first]).v)
    /\ ~up

C7_UnknownOperation ==
    \A c \in Conn : \A i \in 1..Len(ops[c]) :
        IsUnknown(ops[c][i]) =>
            /\ C7_ServerSide(c, ops[c][i])
            /\ (ReceivedAll(c) /\ i = 1) => (pc[c] = "exited" /\ status[c] = 1)

(***************************************************************************)
(* C8: when the lookup or the call of a handler raises anything but        *)
(* SystemExit (a request object without a required field included), the    *)
(* server relays the traceback as error output, sends the exit directive   *)
(* 1 to the caller, and the whole service process ends with exit code 0.   *)
(***************************************************************************)
\* a request object without one of the three fields
LacksField(request) ==
    IsObj(request) /\ \E k \in Range(Key) : ~HasKey(request, k)

C8_FailureShutsDown ==
    \A c \in Conn : \A i \in 1..Len(ops[c]) :
        LET op == ops[c][i]
        IN  /\ LacksField(op.request) => op.kind = "Exception"
            /\ op.kind = "Exception" =>
                  /\ FailureRelayed(c, op)
                  /\ Len(RelayArg(sent[c][op.first + op.wrote]).v) > 3
                  /\ LacksField(op.request) =>
                        RelayArg(sent[c][op.first + op.wrote]).v[2] = "KeyError"
                  /\ ServiceEnded(0)

\* a request without its env field has been answered with the traceback and
\* the exit directive, which its client has shown and obeyed
C8_Witness ==
    \E c \in Conn :
        /\ Len(ops[c]) = 1
        /\ IsObj(ops[c][1].request)
        /\ ~HasKey(ops[c][1].request, Key.env)
        /\ ops[c][1].kind = "Exception"
        /\ ServiceEnded(0)
        /\ EndedOn(c, 1)
        /\ status[c] = 1

(***************************************************************************)
(* C9: when a handler asks for termination with code N, the server relays  *)
(* the shutdown notice, then sends the exit directive N, the client that   *)
(* obeys it exits with code N, the original output channels are back and   *)
(* the service process ends with exit code 0; a request for exit with no   *)
(* argument gives the exit directive 0.                                    *)
(***************************************************************************)
\* the code N a termination asks for, as a number
CodeNumber(x) == IF IsNum(x) THEN x.v ELSE ScanDigits(x.v, 0, 0).val.v

C9_ExplicitTermination ==
    \A c \in Conn : \A i \in 1..Len(ops[c]) :
        LET op == ops[c][i]
        IN  op.kind = "SystemExit" =>
               /\ op.last = op.first + op.wrote + 2
               /\ sent[c][op.first + op.wrote] =
                     RelayMessage(ClientName.print_server_stdout, Str(ShuttingDown))
               /\ sent[c][op.last] = RelayMessage(ClientName._exit, op.code)
               /\ OpArgs(op) = <<>> => op.code = Num(0)
               /\ OpArgs(op) # <<>> => op.code = OpArgs(op)[1]
               /\ ServiceEnded(0)
               /\ EndedOn(c, i) => status[c] = CodeNumber(op.code) % 256

(***************************************************************************)
(* C10: for every non-empty request line that is not well-formed JSON, of  *)
(* one character or more, the server relays the traceback as error output, *)
(* sends the exit directive 1 to that client and the whole process ends.   *)
(***************************************************************************)
\* s from offset i on is JSON values written one after the other
RECURSIVE IsJSONTexts(_, _)
IsJSONTexts(s, i) ==
    IF i >= Len(s) THEN TRUE
    ELSE LET d == raw_decode(s, i)
         IN  d.ok /\ IsJSONTexts(s, d.end)

C10_MalformedLineShutsDown ==
    \A c \in Conn :
        (line[c] # NoLine /\ line[c] # <<>> /\ ~IsJSONTexts(line[c], 0))
        => /\ \E j \in 1..Len(sent[c]) : IsTraceback(sent[c][j])
           /\ sent[c] # <<>>
           /\ sent[c][Len(sent[c])] = RelayMessage(ClientName._exit, Num(1))
           /\ ~up
           /\ \A d \in Conn : closed[d]

\* the messages a..b sent on connection c hold an exit directive
HasExit(c, a, b) == \E k \in a..b : IsExitDirective(sent[c][k])

UpTo(n) == [i \in 1..n |-> i]

\* the client of connection c has made a connection
HasConnected(c) == pc[c] \in {"connected", "recv"} \/ (pc[c] = "exited" /\ rfile[c] # <<>>)

(***************************************************************************)
(* C12: while nothing listens the client makes exactly 10 attempts to      *)
(* connect; the delay after its n-th failed attempt is n tenths of a       *)
(* second; after the 10th failure it exits with a nonzero code and has     *)
(* sent nothing.  An attempt fails only while nothing listens: with a      *)
(* listener there before the 10th failure the client connects, and it      *)
(* sends one request.                                                      *)
(***************************************************************************)
C12_RetryState(c) ==
    /\ connection_attempts[c] <= 10
    /\ slept[c] = UpTo(IF connection_attempts[c] < 10 THEN connection_attempts[c] ELSE 9)
    /\ \A n \in 1..Len(slept[c]) : slept[c][n] = n
    /\ connection_attempts[c] = 10 =>
          /\ pc[c] = "exited"
          /\ status[c] # 0
          /\ rfile[c] = <<>>
          /\ \A i \in 1..Len(backlog) : backlog[i] # c
    /\ (pc[c] = "exited" /\ rfile[c] = <<>>) => connection_attempts[c] = 10
    /\ HasConnected(c) => connection_attempts[c] < 10
    /\ pc[c] \in {"start", "connected"} => rfile[c] = <<>>

C12_RetryStep(c) ==
    /\ connection_attempts'[c] # connection_attempts[c] =>
          /\ ~up
          /\ connection_attempts'[c] = connection_attempts[c] + 1
    /\ (pc[c] = "start" /\ up) => (pc'[c] # "start" => pc'[c] = "connected")
    /\ (rfile'[c] # rfile[c] /\ rfile'[c] # <<>>) =>
          /\ pc[c] = "connected" /\ pc'[c] = "recv"
          /\ rfile'[c] \in {l \o <<NEWLINE>> : l \in RequestLines}

C12_ConnectRetry ==
    /\ [](\A c \in Conn : C12_RetryState(c))
    /\ [][\A c \in Conn : C12_RetryStep(c)]_vars

\* one client has given up after its 10th failed attempt, another has
\* connected after some failed attempts and has sent its request
C12_Witness ==
    \E c, d \in Conn :
        /\ connection_attempts[c] = 10 /\ pc[c] = "exited" /\ status[c] = 1
        /\ Len(slept[c]) = 9
        /\ connection_attempts[d] \in 1..9 /\ pc[d] = "recv" /\ rfile[d] # <<>>

\* the relay messages of the calls of write that were not blank
RECURSIVE NonBlankRelayed(_)
NonBlankRelayed(calls) ==
    IF calls = <<>> THEN <<>>
    ELSE (IF Blank(Head(calls).text) THEN <<>>
          ELSE <<RelayMessage(Head(calls).target, Str(Head(calls).text))>>)
         \o NonBlankRelayed(Tail(calls))

(***************************************************************************)
(* C13 as stated: write(text) does nothing when text is empty or           *)
(* whitespace only, so that no relay message with such a text is ever on   *)
(* the wire; for every other text one relay message is sent at once, with  *)
(* no delimiter.                                                           *)
(***************************************************************************)
C13_BlankWriteIsNoOp ==
    \A c \in Conn :
        /\ \A i \in 1..Len(sent[c]) :
              ~IsExitDirective(sent[c][i]) => ~Blank(RelayArg(sent[c][i]).v)
        /\ c = stdout => sent[c] = NonBlankRelayed(written)

(***************************************************************************)
(* C13 amended: write(text) sends one relay message with the text as its   *)
(* only argument for every text, the empty and the whitespace-only ones    *)
(* included, at once and with no delimiter: the messages on the connection *)
(* are those of the calls, one for one and in order, and the stream is     *)
(* their JSON texts one after the other.                                   *)
(***************************************************************************)
C13_EveryWriteRelayed ==
    \A c \in Conn :
        /\ c = stdout =>
              /\ Len(sent[c]) = Len(written)
              /\ \A i \in 1..Len(written) :
                    sent[c][i] = RelayMessage(written[i].target, Str(written[i].text))
        /\ wire[c] = DumpAll(sent[c])
        /\ Len(wire[c]) \in marks[c]

\* a blank text and another text have been written and both are on the wire
C13_Witness ==
    /\ stdout # 0
    /\ Len(written) >= 2
    /\ \E i, j \in 1..Len(written) :
          /\ Blank(written[i].text) /\ ~Blank(written[j].text)
          /\ RelayArg(sent[stdout][i]) = Str(written[i].text)
          /\ RelayArg(sent[stdout][j]) = Str(written[j].text)
    /\ wire[stdout] = DumpAll(sent[stdout])


\* ---------------------------------------------------------------------
\* C14: if the server closes the connection before the client has dispatched
\* a terminate directive, the client's receive loop ends and the client
\* process terminates instead of looping forever: once recv has returned the
\* empty result of a closed connection, the client has exited.
C14_ClosedConnectionEndsClient ==
    \A c \in Conn : eofs[c] >= 1 => pc[c] = "exited"

(***************************************************************************)
(* C15: an error, an explicit exit or a malformed payload is fatal to the  *)
(* whole service: once a dispatch has ended in a handler failure, an       *)
(* unknown operation, an explicit termination or a decode failure, the     *)
(* server dispatches nothing more, on that connection or on any other, and *)
(* the process-wide state (THING, the environment) never changes again.    *)
(***************************************************************************)
\* the except block of lines 178-182 has run on connection c: a traceback
\* was relayed outside the messages of every request object dispatched
DecodeFailed(c) ==
    \E j \in 1..Len(sent[c]) :
        /\ IsTraceback(sent[c][j])
        /\ \A i \in 1..Len(ops[c]) : j \notin ops[c][i].first..ops[c][i].last

\* a dispatch has ended in something else than the handler's normal return
Fatal ==
    \/ \E i \in 1..Len(GlobalOps) : GlobalOps[i].kind # "return"
    \/ \E c \in Conn : DecodeFailed(c)

C15_FailureIsFatal ==
    /\ [](\A i \in 1..Len(GlobalOps) :
              GlobalOps[i].kind # "return" => i = Len(GlobalOps))
    /\ [][Fatal => /\ ops' = ops
                   /\ THING' = THING
                   /\ environ' = environ]_vars

\* a line has failed to decode while another client was connected with its
\* request sent: that client is never served and ends on the reset connection
C15_Witness ==
    /\ \E c \in Conn : DecodeFailed(c)
    /\ \E d \in Conn :
          /\ line[d] = NoLine
          /\ rfile[d] # <<>>
          /\ closed[d]
          /\ pc[d] = "exited"

(***************************************************************************)
(* C16: after a handler returns normally the server sends the exit         *)
(* directive 0 and goes back to awaiting a request on the same connection; *)
(* when the peer closes the connection (empty read) only that connection's *)
(* loop ends: the process keeps running, THING and the environment are     *)
(* unchanged, no other connection is closed, and the server is free to     *)
(* accept the next client.                                                 *)
(***************************************************************************)
\* every request that returned normally ends in the exit directive 0
C16_ReturnSendsZero ==
    \A c \in Conn : \A i \in 1..Len(ops[c]) :
        ops[c][i].kind = "return" =>
            /\ ops[c][i].code = Num(0)
            /\ sent[c][ops[c][i].last] = RelayMessage(ClientName._exit, Num(0))
            /\ ~HasExit(c, ops[c][i].first, ops[c][i].last - 1)

\* the step dispatched requests of connection c and the last thing sent is
\* the exit directive of one that returned: the server awaits on c again
C16_AwaitsAgain(c) ==
    (/\ Len(ops'[c]) > Len(ops[c])
     /\ ops'[c][Len(ops'[c])].kind = "return"
     /\ ops'[c][Len(ops'[c])].last = Len(sent'[c]))
    => /\ up'
       /\ cur' = c
       /\ stdout' = stdout
       /\ ~closed'[c]

\* the step is the empty read on connection c
C16_EmptyRead(c) ==
    (cur = c /\ rfile[c] = <<>> /\ cur' # c)
    => /\ up'
       /\ cur' = 0
       /\ THING' = THING
       /\ environ' = environ
       /\ closed'[c]
       /\ \A d \in Conn \ {c} : closed'[d] = closed[d]
       /\ backlog' = backlog

C16_ConnectionLoop ==
    /\ [](C16_ReturnSendsZero)
    /\ [][\A c \in Conn : C16_AwaitsAgain(c) /\ C16_EmptyRead(c)]_vars

\* a client set the stored variable and closed; the next client that
\* connected was served by the same process and read the value
C16_Witness ==
    /\ up
    /\ closed[1]
    /\ ops[1] # <<>>
    /\ IsSetThing(ops[1][1])
    /\ ops[1][1].kind = "return"
    /\ ops[2] # <<>>
    /\ IsGetThing(ops[2][1])
    /\ THING # Unset

(***************************************************************************)
(* C17: the stored variable THING is changed only by the execution of an   *)
(* operation handler: it is unset when the process starts, and a step      *)
(* changes it only by dispatching a set_thing request whose handler ran    *)
(* with its one argument, which is the new value; accepting, reading and   *)
(* decoding, replacing the environment, an unknown operation, a decode     *)
(* failure, sending messages and a peer's closing leave it as it was.      *)
(***************************************************************************)
\* the step dispatched the i-th request of connection c
DispatchedNow(c, i) == i \in (Len(ops[c]) + 1)..Len(ops'[c])

\* the set_thing handler ran for this request
RanSetThing(op) ==
    /\ IsSetThing(op)
    /\ op.called = <<[name |-> <<"set_thing">>, args |-> OpArgs(op)]>>
    /\ op.kind = "return"

C17_ThingOwnedByHandlers ==
    /\ THING = Unset
    /\ [][THING' # THING =>
             \E c \in Conn : \E i \in 1..Len(ops'[c]) :
                 /\ DispatchedNow(c, i)
                 /\ RanSetThing(ops'[c][i])
                 /\ THING' = OpArgs(ops'[c][i])[1]]_vars

\* the value one client stored is in place after that client closed, the
\* next one was accepted, its environment applied and its request failed on
\* an unknown operation, with the error and the exit directive sent
C17_Witness ==
    /\ ops[1] # <<>>
    /\ RanSetThing(ops[1][1])
    /\ closed[1]
    /\ ops[2] # <<>>
    /\ IsUnknown(ops[2][1])
    /\ FailureRelayed(2, ops[2][1])
    /\ THING = OpArgs(ops[1][1])[1]

(***************************************************************************)
(* C19: every relay message and every exit directive caused by a request   *)
(* of connection c is written to connection c only: what a connection was  *)
(* sent is, request by request, exactly what its own requests produced; a  *)
(* step writes to no other connection than the one in service and to no    *)
(* connection that is closed; and a client dispatches only messages sent   *)
(* on its own connection.                                                  *)
(***************************************************************************)
\* the messages of each request of c are on c's stream, in the request's
\* place, and no request of c has put anything on another stream
C19_OwnOutput(c) ==
    \A i \in 1..Len(ops[c]) :
        /\ ops[c][i].conn = c
        /\ ops[c][i].last <= Len(sent[c])
        /\ SubSeq(sent[c], ops[c][i].first, ops[c][i].last) = ops[c][i].out

\* a connection none of whose lines was read has been sent nothing
C19_NothingUncaused(c) == line[c] \in {NoLine, <<>>} => sent[c] = <<>>

C19_WritesOwnOnly(c) ==
    sent'[c] # sent[c] => (cur = c /\ ~closed[c] /\ wire'[c] # wire[c])

C19_OutputRouting ==
    /\ [](\A c \in Conn :
              /\ C19_OwnOutput(c)
              /\ C19_NothingUncaused(c)
              /\ IsSubseq(events[c], sent[c]))
    /\ [][\A c \in Conn : C19_WritesOwnOnly(c)]_vars

\* two clients were served one after the other, each got output and an exit
\* directive, and the outputs differ
C19_Witness ==
    /\ \A c \in Conn :
          /\ ops[c] # <<>>
          /\ ops[c][1].wrote >= 1
          /\ Len(events[c]) >= 2
    /\ sent[1] # sent[2]

(***************************************************************************)
(* C20: for every request object the server dispatches, whatever its       *)
(* outcome, exactly one exit directive is sent on that connection, the     *)
(* last of the request's messages; and every non-empty request line the    *)
(* server has read has led to at least one exit directive on that          *)
(* connection.                                                             *)
(***************************************************************************)
C20_OnePerRequest(c) ==
    \A i \in 1..Len(ops[c]) :
        /\ ops[c][i].last <= Len(sent[c])
        /\ IsExitDirective(sent[c][ops[c][i].last])
        /\ ~HasExit(c, ops[c][i].first, ops[c][i].last - 1)

C20_LineAnswered(c) ==
    (line[c] # NoLine /\ line[c] # <<>>) => HasExit(c, 1, Len(sent[c]))

C20_ExactlyOneExitDirective ==
    \A c \in Conn : C20_OnePerRequest(c) /\ C20_LineAnswered(c)

(***************************************************************************)
(* C18: every handler invocation observes exactly the environment of its   *)
(* own caller, also with several clients connected at the same time: while *)
(* a request of connection c stands between the replacement of the         *)
(* environment and its exit directive, the environment does not change and *)
(* the handler of no other connection takes a step; so the environment a   *)
(* handler runs under is the one its own request carries.                  *)
(***************************************************************************)
\* between the replacement of the environment and the exit directive
Applied(c) == handlers[c].phase \in {"env", "ran"}

\* run was called for the request of connection c under the environment
\* that request carries, and its result is that of the request taken alone
C18_ObservesOwn(c) ==
    (handlers[c].phase = "ran" /\ CanSubscript(handlers[c].request, Key.env)) =>
        /\ handlers[c].observed = GetKey(handlers[c].request, Key.env)
        /\ environ = GetKey(handlers[c].request, Key.env)

C18_OneAtATime ==
    \A c \in Conn : \A d \in Conn \ {c} :
        handlers[c].phase # "none" => handlers[d].phase = "none"

C18_NoStepOfOthers(c) ==
    Applied(c) => /\ environ' = environ
                  /\ \A d \in Conn \ {c} : handlers'[d] = handlers[d]

C18_CallerEnvironment ==
    /\ [](C18_OneAtATime /\ \A c \in Conn : C18_ObservesOwn(c))
    /\ [][\A c \in Conn : C18_NoStepOfOthers(c)]_vars

\* run has ended for the first client's request, under that request's
\* environment, while the second client is connected and its request, which
\* carries another environment, waits to be read
C18_Witness ==
    /\ handlers[1].phase = "ran"
    /\ handlers[1].result.called # <<>>
    /\ handlers[1].observed = GetKey(handlers[1].request, Key.env)
    /\ pc[2] = "recv"
    /\ rfile[2] # <<>>
    /\ LET d == raw_decode(strip(rfile[2]), 0)
       IN  /\ d.ok
           /\ CanSubscript(d.val, Key.env)
           /\ GetKey(d.val, Key.env) # handlers[1].observed

====
